---- MODULE Spec2Model ----
(***************************************************************************)
(* Model of the Migrate page (src/src/pages/Migrate.tsx) and of the        *)
(* signing context it publishes through (src/src/common/contract.ts).      *)
(*                                                                         *)
(* JavaScript runs one handler at a time up to its next await on real I/O, *)
(* so every action below is one such run-to-suspension segment.  A React   *)
(* handler reads the `messages` of the render that created it: the Start   *)
(* handler keeps the list it was created with (`captured`) for the whole   *)
(* run, while `messages` is the state the page shows.  Lists are 1-based   *)
(* here and 0-based in the code.                                           *)
(***************************************************************************)
EXTENDS Integers, Sequences, FiniteSets, TLC

\* Bounds of the model.
NumMsgs == 3          \* messages in the export (result.json)
MaxRuns == 2          \* Start handlers that can be suspended at one time

IDs == 1..NumMsgs
Runs == 1..MaxRuns

NotInitialized == "Contract not initialized."
LoadError == "Unexpected token < in JSON"
IOErrors == {"Failed to fetch"}

VARIABLES
    export,          \* result.json: the messages of the export, in order
    store,           \* the persisted record behind getProgress/setProgress
    gContract,       \* contract.ts gContract: "null" or "set"
    initPc,          \* initWithPrivateKey: "idle" or "connecting"
    page,            \* the route shown: "migrate" or "finish"
    isLoading,       \* useState isLoading
    isShowingError,  \* useState isShowingError
    errorMessage,    \* useState errorMessage
    messages,        \* useState messages: the candidate list shown
    loadPc,          \* loadMessages: "fetching" or "done"
    runs,            \* the Start handlers: position, captured list, call trace
    loaded,          \* history: what the last loadMessages read and built
    posted,          \* history: ids of the messages with a note on the chain
    signer,          \* contract.ts characterId, and whether an init connected
    publisher,             \* the signerPostNote call under way, with its I/O trace
    text             \* the last ParseMessageText call: message and result

vars == <<export, store, gContract, initPc, page, isLoading, isShowingError,
          errorMessage, messages, loadPc, runs, loaded, posted, signer, publisher,
          text>>

-----------------------------------------------------------------------------
\* Helpers

\* Array.prototype.includes
Includes(list, x) == \E i \in 1..Len(list) : list[i] = x

\* The set of elements of a list
Elems(list) == {list[i] : i \in 1..Len(list)}

\* messages.slice(0, index).concat([item]).concat(messages.slice(index + 1, messages.length))
ReplaceAt(list, index, item) ==
    SubSeq(list, 1, index - 1) \o <<item>> \o SubSeq(list, index + 1, Len(list))

\* The exports the model draws from, ids 1..NumMsgs in order: one without
\* service messages, one whose even messages are service messages.
Exports ==
    {[i \in IDs |-> [id |-> i, type |-> "message"]],
     [i \in IDs |-> [id |-> i,
                     type |-> IF i % 2 = 0 THEN "service" ELSE "message"]]}

-----------------------------------------------------------------------------
\* Progress store (session module)

\* getProgress()
getProgress == store

\* getSetting()
getSetting == store

\* Mutant of ResetFinished: the run starts without emptying finishedIDs.
ResetFinishedKept(progress) == progress

\* Mutant of ResetFinished: the record is written without the spread.
ResetFinishedDropsSettings(progress) ==
    [finishedIDs |-> <<>>, includeService |-> FALSE]

\* { ...getProgress(), finishedIDs: [] }
ResetFinished(progress) == [progress EXCEPT !.finishedIDs = <<>>]

\* Mutant of AppendFinished: the id after the published message's is recorded.
AppendFinishedRecordsNext(progress, id) ==
    [progress EXCEPT !.finishedIDs = Append(@, id + 1)]

\* Mutant of AppendFinished: the id of the published message is not recorded.
AppendFinishedDropped(progress, id) == progress

\* { ...progress, finishedIDs: progress.finishedIDs.concat(id) }
AppendFinished(progress, id) ==
    [progress EXCEPT !.finishedIDs = Append(@, id)]

-----------------------------------------------------------------------------
\* Candidates

\* Mutant of ParseCandidate: a completed message is selected by default.
ParseCandidateSelectsCompleted(msg, currentProgress, settings) ==
    LET isService == msg.type = "service"
        isMigrated == Includes(currentProgress.finishedIDs, msg.id)
    IN  [message |-> msg,
         isToMigrate |-> settings.includeService \/ ~isService,
         isPendingMigrate |-> FALSE,
         isMigrated |-> isMigrated]

\* Mutant of ParseCandidate: the includeService setting is not consulted.
ParseCandidateIgnoresSetting(msg, currentProgress, settings) ==
    LET isService == msg.type = "service"
        isMigrated == Includes(currentProgress.finishedIDs, msg.id)
    IN  [message |-> msg,
         isToMigrate |-> ~isMigrated /\ ~isService,
         isPendingMigrate |-> FALSE,
         isMigrated |-> isMigrated]

\* The callback of results.messages.map in loadMessages
ParseCandidate(msg, currentProgress, settings) ==
    LET isService == msg.type = "service"
        isMigrated == Includes(currentProgress.finishedIDs, msg.id)
    IN  [message |-> msg,
         isToMigrate |-> ~isMigrated /\ (settings.includeService \/ ~isService),
         isPendingMigrate |-> FALSE,
         isMigrated |-> isMigrated]

\* results.messages.map(...)
ParseMessages(results, currentProgress, settings) ==
    [i \in 1..Len(results) |-> ParseCandidate(results[i], currentProgress, settings)]

\* { ...wrappedMessage, isPendingMigrate: true }
MarkPending(wrappedMessage) ==
    [wrappedMessage EXCEPT !.isPendingMigrate = TRUE]

\* { ...wrappedMessage, isPendingMigrate: false, isMigrated: true }
MarkDone(wrappedMessage) ==
    [wrappedMessage EXCEPT !.isPendingMigrate = FALSE, !.isMigrated = TRUE]

\* Mutant of MarkToggled: the record is built anew, its status flags cleared.
MarkToggledResetsStatus(wrappedMessage) ==
    [message |-> wrappedMessage.message,
     isToMigrate |-> ~wrappedMessage.isToMigrate,
     isPendingMigrate |-> FALSE,
     isMigrated |-> FALSE]

\* { ...wrappedMessage, isToMigrate: !wrappedMessage.isToMigrate }
MarkToggled(wrappedMessage) ==
    [wrappedMessage EXCEPT !.isToMigrate = ~wrappedMessage.isToMigrate]

\* if (wrappedMessage.isToMigrate)
ShouldMigrate(wrappedMessage) == wrappedMessage.isToMigrate

\* The for loop: the first index >= from whose candidate is processed,
\* Len(list) + 1 when the loop runs off the end.
RECURSIVE NextSelected(_, _)
NextSelected(list, from) ==
    IF from > Len(list) THEN Len(list) + 1
    ELSE IF ShouldMigrate(list[from]) THEN from
    ELSE NextSelected(list, from + 1)

-----------------------------------------------------------------------------
\* The Start handler

IdleRun ==
    [pc |-> "idle", captured |-> <<>>, index |-> 0, published |-> {},
     log |-> <<>>, error |-> ""]

Call(op, arg) == [op |-> op, arg |-> arg]

\* The slot a new Start handler takes: the lowest one not suspended.
FreeRuns == {r \in Runs : runs[r].pc # "await"}
LowestFree == CHOOSE r \in FreeRuns : \A q \in FreeRuns : r <= q

\* A state setter of the component called with value v: it changes the state
\* (now old) only while the component is mounted.
SetState(v, old) == IF page = "migrate" THEN v ELSE old

\* The handler from loop index `from` to its next suspension or its end.
\* st is the store and shown the list as the handler's calls so far in this
\* segment have left them; pub and log are the run's history so far.
RunFrom(r, captured, from, pub, log, st, shown) ==
    LET index == NextSelected(captured, from) IN
    IF index > Len(captured)
    THEN \* loop done: nav("/finish"); setLoading(false)
         /\ runs' = [runs EXCEPT ![r] =
                [pc |-> "finished", captured |-> captured, index |-> index,
                 published |-> pub, log |-> Append(log, Call("nav", index)),
                 error |-> ""]]
         /\ store' = st
         /\ messages' = SetState(shown, messages)
         /\ page' = "finish"
         /\ isLoading' = SetState(FALSE, isLoading)
         /\ UNCHANGED <<isShowingError, errorMessage>>
    ELSE LET pending == ReplaceAt(captured, index, MarkPending(captured[index]))
             log2 == log \o <<Call("setMessages", pending),
                              Call("signerPostNote", index)>>
         IN  IF gContract = "null"
             THEN \* signerPostNote throws before its first await: catch
                  /\ runs' = [runs EXCEPT ![r] =
                         [pc |-> "failed", captured |-> captured, index |-> index,
                          published |-> pub, log |-> log2,
                          error |-> NotInitialized]]
                  /\ store' = st
                  /\ messages' = SetState(pending, messages)
                  /\ errorMessage' = SetState(NotInitialized, errorMessage)
                  /\ isShowingError' = SetState(TRUE, isShowingError)
                  /\ isLoading' = SetState(FALSE, isLoading)
                  /\ UNCHANGED page
             ELSE \* suspended in signerPostNote
                  /\ runs' = [runs EXCEPT ![r] =
                         [pc |-> "await", captured |-> captured, index |-> index,
                          published |-> pub, log |-> log2, error |-> ""]]
                  /\ store' = st
                  /\ messages' = SetState(pending, messages)
                  /\ isLoading' = SetState(TRUE, isLoading)
                  /\ UNCHANGED <<page, isShowingError, errorMessage>>

\* onClick of the Start processing button, up to the first suspension
Start ==
    /\ page = "migrate"
    /\ FreeRuns # {}
    /\ LET r == LowestFree
           st == ResetFinished(getProgress)
       IN  RunFrom(r, messages, 1, {}, <<Call("setProgress", st)>>, st, messages)
    /\ UNCHANGED <<export, gContract, initPc, loadPc, loaded, posted, signer,
                   text>>

\* signerPostNote resolves: the handler goes on from line 175 to its next
\* suspension or its end.
PublishOk(r) ==
    /\ runs[r].pc = "await"
    /\ LET captured == runs[r].captured
           index == runs[r].index
           id == captured[index].message.id
           st == AppendFinished(getProgress, id)
           done == ReplaceAt(captured, index, MarkDone(captured[index]))
           log2 == runs[r].log \o <<Call("returned", index),
                                    Call("setProgress", st),
                                    Call("setMessages", done)>>
       IN  RunFrom(r, captured, index + 1, runs[r].published \cup {index},
                   log2, st, done)
    /\ UNCHANGED <<export, gContract, initPc, loadPc, loaded, signer, text>>

\* The id of the message whose signerPostNote call run r is suspended in
AwaitedId(r) == runs[r].captured[runs[r].index].message.id

\* Mutant of PublishFail: setLoading(false) is not reached from the catch.
PublishFailKeepsLoading(r, e) ==
    /\ runs[r].pc = "await"
    /\ runs' = [runs EXCEPT ![r].pc = "failed", ![r].error = e]
    /\ errorMessage' = SetState(e, errorMessage)
    /\ isShowingError' = SetState(TRUE, isShowingError)
    /\ UNCHANGED <<export, store, gContract, initPc, page, messages, loadPc,
                   loaded, posted, signer, text, isLoading>>

\* Mutant of PublishFail: the catch block records the id all the same.
PublishFailRecordsId(r, e) ==
    /\ runs[r].pc = "await"
    /\ runs' = [runs EXCEPT ![r].pc = "failed", ![r].error = e]
    /\ store' = AppendFinished(store, AwaitedId(r))
    /\ errorMessage' = e
    /\ isShowingError' = TRUE
    /\ isLoading' = FALSE
    /\ UNCHANGED <<export, gContract, initPc, page, messages, loadPc,
                   loaded, posted, signer, text>>

\* signerPostNote rejects with error e: the catch block, then setLoading(false)
PublishFail(r, e) ==
    /\ runs[r].pc = "await"
    /\ runs' = [runs EXCEPT ![r].pc = "failed", ![r].error = e]
    /\ errorMessage' = SetState(e, errorMessage)
    /\ isShowingError' = SetState(TRUE, isShowingError)
    /\ isLoading' = SetState(FALSE, isLoading)
    /\ UNCHANGED <<export, store, gContract, initPc, page, messages, loadPc,
                   loaded, posted, signer, text>>

-----------------------------------------------------------------------------
\* The other handlers of the page

\* loadMessages after fetch("result.json") resolved and parsed
LoadOk ==
    /\ loadPc = "fetching"
    /\ loadPc' = "done"
    /\ LET settings == getSetting
           currentProgress == getProgress
           parsedMessages == ParseMessages(export, currentProgress, settings)
       IN  /\ messages' = SetState(parsedMessages, messages)
           /\ loaded' = [progress |-> currentProgress, messages |-> parsedMessages]
    /\ isLoading' = SetState(FALSE, isLoading)
    /\ UNCHANGED <<export, store, gContract, initPc, page, isShowingError,
                   errorMessage, runs, posted, signer, publisher, text>>

\* Mutant of LoadFail: setLoading(false) is not reached.
LoadFailKeepsLoading ==
    /\ loadPc = "fetching"
    /\ loadPc' = "done"
    /\ errorMessage' = SetState(LoadError, errorMessage)
    /\ isShowingError' = SetState(TRUE, isShowingError)
    /\ UNCHANGED <<export, store, gContract, initPc, page, messages, runs,
                   loaded, posted, signer, publisher, text, isLoading>>

\* loadMessages after the fetch or the parse threw
LoadFail ==
    /\ loadPc = "fetching"
    /\ loadPc' = "done"
    /\ errorMessage' = SetState(LoadError, errorMessage)
    /\ isShowingError' = SetState(TRUE, isShowingError)
    /\ isLoading' = SetState(FALSE, isLoading)
    /\ UNCHANGED <<export, store, gContract, initPc, page, messages, runs,
                   loaded, posted, signer, publisher, text>>

\* onClick of the list item at index
Toggle(index) ==
    /\ page = "migrate"
    /\ index \in 1..Len(messages)
    /\ messages' = ReplaceAt(messages, index, MarkToggled(messages[index]))
    /\ UNCHANGED <<export, store, gContract, initPc, page, isLoading,
                   isShowingError, errorMessage, loadPc, runs, loaded, posted,
                   signer, publisher, text>>

\* onClose of the error dialog and onClick of its OK button
CloseError ==
    /\ page = "migrate"
    /\ isShowingError
    /\ isShowingError' = FALSE
    /\ UNCHANGED <<export, store, gContract, initPc, page, isLoading,
                   errorMessage, messages, loadPc, runs, loaded, posted,
                   signer, publisher, text>>

NotLoaded == [progress |-> [finishedIDs |-> <<>>], messages |-> <<>>]

\* let characterId = 0: no character resolved yet
NoCharacter == 0

\* characterId = res.characterId in setContractCharacterHandle
ResolvedCharacters == {1}

\* The module state of contract.ts a setup leaves next to gContract: one that
\* connected has resolved its character as well.
SignerAfter(g) ==
    [characterId |-> IF g = "set" THEN CHOOSE c \in ResolvedCharacters : TRUE
                     ELSE NoCharacter,
     connected |-> g = "set"]

\* An address is the sequence of its path segments; undefined and "" are <<>>.
NoAddress == <<>>

\* A message as signerPostNote reads it: the photo list (absent, or entries
\* with or without an address) and the file address.
NoMedia == [hasPhotos |-> FALSE, photos |-> <<>>, file |-> NoAddress]

\* No signerPostNote call has been made.
IdlePub ==
    [pc |-> "idle", run |-> 0, id |-> 0, message |-> NoMedia, k |-> 0,
     attachments |-> <<>>, ops |-> <<>>, acked |-> 0,
     ctx |-> [gContract |-> "null", characterId |-> NoCharacter],
     error |-> ""]

\* A message ParseMessageText is about to be called with
ToParse(message) == [message |-> message, called |-> FALSE, result |-> ""]

\* No ParseMessageText call is to be made.
NoText == ToParse([type |-> "message", action |-> "", text_entities |-> <<>>])

\* What the setup pages leave in gContract before the Migrate page mounts:
\* "set" after an initWithPrivateKey that connected, "null" otherwise.
SetupOutcomes == {"null", "set"}

\* The page is opened again in a new process: the persisted record and the
\* chain stay, every suspended handler and the component state are gone,
\* the setup has or has not been done again, and the mounted component
\* starts loadMessages.
Reload ==
    /\ gContract' \in SetupOutcomes
    /\ initPc' = "idle"
    /\ page' = "migrate"
    /\ isLoading' = TRUE
    /\ isShowingError' = FALSE
    /\ errorMessage' = ""
    /\ messages' = <<>>
    /\ loadPc' = "fetching"
    /\ runs' = [r \in Runs |-> IdleRun]
    /\ loaded' = NotLoaded
    /\ signer' = SignerAfter(gContract')
    /\ publisher' = IdlePub
    /\ UNCHANGED <<export, store, posted, text>>

-----------------------------------------------------------------------------
\* The signing context (contract.ts)

\* initWithPrivateKey with a usable key, up to await gContract.connect()
InitBegin ==
    /\ initPc = "idle"
    /\ gContract' = "set"
    /\ initPc' = "connecting"
    /\ UNCHANGED <<export, store, page, isLoading, isShowingError, errorMessage,
                   messages, loadPc, runs, loaded, posted, signer, publisher, text>>

\* connect() resolved
InitConnected ==
    /\ initPc = "connecting"
    /\ initPc' = "idle"
    /\ signer' = [signer EXCEPT !.connected = TRUE]
    /\ UNCHANGED <<export, store, gContract, page, isLoading, isShowingError,
                   errorMessage, messages, loadPc, runs, loaded, posted, publisher,
                   text>>

\* connect() rejected: the catch block
InitFailed ==
    /\ initPc = "connecting"
    /\ initPc' = "idle"
    /\ gContract' = "null"
    /\ UNCHANGED <<export, store, page, isLoading, isShowingError, errorMessage,
                   messages, loadPc, runs, loaded, posted, signer, publisher, text>>

\* initWithPrivateKey with a key ethers.Wallet rejects: the constructor
\* throws inside the try block, the catch block clears gContract
InitRejectedKey ==
    /\ initPc = "idle"
    /\ gContract' = "null"
    /\ UNCHANGED <<export, store, initPc, page, isLoading, isShowingError,
                   errorMessage, messages, loadPc, runs, loaded, posted, signer,
                   publisher, text>>

\* The exported functions that start with
\* if (gContract === null) throw new Error("Contract not initialized.")
GuardedCalls ==
    {"getSignerAddress", "getSignerBalance", "checkOperator", "addOperator",
     "removeOperator", "signerPostNote"}

\* What a call of fn comes to at its guard in the current state
GuardOutcome(fn) == IF gContract = "null" THEN NotInitialized ELSE "passed"

-----------------------------------------------------------------------------
\* ParseMessageText (contract.ts)

MaxSpans == 2

\* TextEntity.type as the comment on the interface lists it
SpanTypes ==
    {"plain", "bold", "spoiler", "italic", "strikethrough", "link", "text_link"}

\* The spans of an export: a text_link carries its href, no other span has one.
Spans ==
    {[type |-> t, text |-> x, href |-> IF t = "text_link" THEN "t.me/c" ELSE ""] :
        t \in SpanTypes, x \in {"x", "y"}}

SpanLists == UNION {[1..n -> Spans] : n \in 0..MaxSpans}

\* The messages ParseMessageText is called with; action is "" when absent.
TextMessages ==
    [type : {"message", "service"}, action : {"", "pin_message"},
     text_entities : SpanLists]

\* Mutant of AppendEntity: italic rendered with underscores.
AppendEntityItalicAsUnderscore(content, entity) ==
    CASE entity.type = "bold" -> content \o "**" \o entity.text \o "**"
      [] entity.type = "italic" -> content \o "_" \o entity.text \o "_"
      [] entity.type = "strikethrough" -> content \o "~~" \o entity.text \o "~~"
      [] entity.type = "link" ->
             content \o "[" \o entity.text \o "](" \o entity.text \o ")"
      [] entity.type = "text_link" ->
             content \o "[" \o entity.text \o "](" \o entity.href \o ")"
      [] OTHER -> content \o entity.text

\* The switch on entity.type: content += ...
AppendEntity(content, entity) ==
    CASE entity.type = "bold" -> content \o "**" \o entity.text \o "**"
      [] entity.type = "italic" -> content \o "*" \o entity.text \o "*"
      [] entity.type = "strikethrough" -> content \o "~~" \o entity.text \o "~~"
      [] entity.type = "link" ->
             content \o "[" \o entity.text \o "](" \o entity.text \o ")"
      [] entity.type = "text_link" ->
             content \o "[" \o entity.text \o "](" \o entity.href \o ")"
      [] OTHER -> content \o entity.text

\* for (const entity of message.text_entities), from entry i with content so far
RECURSIVE ParseEntities(_, _, _)
ParseEntities(entities, i, content) ==
    IF i > Len(entities) THEN content
    ELSE ParseEntities(entities, i + 1, AppendEntity(content, entities[i]))

ParseMessageText(message) ==
    IF message.type = "service"
    THEN (IF message.action # "" THEN message.action ELSE "")
    ELSE ParseEntities(message.text_entities, 1, "")

\* The call of ParseMessageText on the message at hand
FormatText ==
    /\ ~text.called
    /\ text' = [text EXCEPT !.called = TRUE,
                            !.result = ParseMessageText(text.message)]
    /\ UNCHANGED <<export, store, gContract, initPc, page, isLoading,
                   isShowingError, errorMessage, messages, loadPc, runs, loaded,
                   posted, signer, publisher>>

-----------------------------------------------------------------------------
\* signerPostNote (contract.ts, the version with a photo list)

MaxPhotos == 2

PhotoAddress(i) == <<"photos", "photo_" \o ToString(i) \o ".jpg">>

FileAddress == <<"files", "doc.pdf">>

\* The photo lists of an export: up to MaxPhotos entries, each with its own
\* address or with none.
PhotoLists ==
    UNION {{[i \in 1..n |-> [photo |-> IF i \in S THEN PhotoAddress(i) ELSE NoAddress]] :
              S \in SUBSET (1..n)} : n \in 0..MaxPhotos}

Medias ==
    {NoMedia} \cup
    [hasPhotos : {TRUE}, photos : PhotoLists,
     file : {NoAddress, FileAddress}] \cup
    [hasPhotos : {FALSE}, photos : {<<>>}, file : {FileAddress}]

\* The awaits of signerPostNote, by the call awaited
PublisherAwaits ==
    {"fetchPhoto", "blobPhoto", "uploadPhoto", "fetchFile", "blobFile",
     "uploadFile", "uploadJson", "postNote"}

OpOf(pc) ==
    CASE pc \in {"fetchPhoto", "fetchFile"} -> "fetch"
      [] pc \in {"blobPhoto", "blobFile"} -> "blob"
      [] pc \in {"uploadPhoto", "uploadFile"} -> "uploadFile"
      [] OTHER -> pc

\* if (!!message.file) { fetch ... } and, past it, uploadJson(note)
FileStage(message) ==
    IF message.file # NoAddress THEN [pc |-> "fetchFile", k |-> 0]
    ELSE [pc |-> "uploadJson", k |-> 0]

\* Mutant of PhotoStage: continue in place of break.
RECURSIVE PhotoStageContinues(_, _)
PhotoStageContinues(message, k) ==
    IF message.hasPhotos /\ k <= Len(message.photos)
    THEN IF message.photos[k].photo # NoAddress
         THEN [pc |-> "fetchPhoto", k |-> k]
         ELSE PhotoStageContinues(message, k + 1)
    ELSE FileStage(message)

\* The photo loop at entry k: if (!!message.photos) for (const photo of
\* message.photos) { if (!photo.photo) break; fetch ... }
PhotoStage(message, k) ==
    IF /\ message.hasPhotos
       /\ k <= Len(message.photos)
       /\ message.photos[k].photo # NoAddress
    THEN [pc |-> "fetchPhoto", k |-> k]
    ELSE FileStage(message)

\* What the call awaited at a stage is made with
ArgOf(p, st) ==
    CASE st.pc \in {"fetchPhoto", "blobPhoto", "uploadPhoto"} ->
             p.message.photos[st.k].photo
      [] st.pc \in {"fetchFile", "blobFile", "uploadFile"} -> p.message.file
      [] st.pc = "uploadJson" -> p.attachments
      [] OTHER -> p.ctx.characterId

\* The call makes the request of stage st and suspends on it.
Enter(p, st) ==
    [p EXCEPT !.pc = st.pc, !.k = st.k,
              !.ops = Append(p.ops, Call(OpOf(st.pc), ArgOf(p, st)))]

\* attachments.push({ name: address.split("/").pop(), address: ipfsUri, ... })
\* with ipfsUri what uploadFile returned for the content fetched at address
Attachment(address) ==
    [name |-> address[Len(address)], address |-> <<"ipfs", address>>]

\* The request awaited resolved (any but postNote): the call runs on to its
\* next await.
Resolved(p) ==
    LET q == [p EXCEPT !.acked = p.acked + 1]
        pushed(a) == [q EXCEPT !.attachments = Append(p.attachments, Attachment(a))]
    IN  CASE p.pc = "fetchPhoto" -> Enter(q, [pc |-> "blobPhoto", k |-> p.k])
          [] p.pc = "blobPhoto" -> Enter(q, [pc |-> "uploadPhoto", k |-> p.k])
          [] p.pc = "uploadPhoto" ->
                 Enter(pushed(p.message.photos[p.k].photo),
                       PhotoStage(p.message, p.k + 1))
          [] p.pc = "fetchFile" -> Enter(q, [pc |-> "blobFile", k |-> 0])
          [] p.pc = "blobFile" -> Enter(q, [pc |-> "uploadFile", k |-> 0])
          [] p.pc = "uploadFile" ->
                 Enter(pushed(p.message.file), [pc |-> "uploadJson", k |-> 0])
          [] p.pc = "uploadJson" -> Enter(q, [pc |-> "postNote", k |-> 0])

\* signerPostNote(message) entered by run r for candidate id, before its
\* first statement
NewCall(r, id, message) ==
    [IdlePub EXCEPT !.run = r, !.id = id, !.message = message,
                    !.ctx = [gContract |-> gContract,
                             characterId |-> signer.characterId]]

\* The call, if any, that run r makes at the end of the segment it has just
\* run; prev is the record of the calls so far.
CallFor(r, prev) ==
    LET run == runs'[r]
        id == run.captured[run.index].message.id
    IN  CASE run.pc = "await" ->
                 \E message \in Medias :
                     publisher' = Enter(NewCall(r, id, message),
                                        PhotoStage(message, 1))
          [] run.pc = "failed" ->
                 publisher' = [NewCall(r, id, NoMedia) EXCEPT
                                  !.pc = "thrown", !.error = run.error]
          [] OTHER -> publisher' = prev

\* A request of the call under way resolves, the transaction excepted
PublisherStep ==
    /\ publisher.pc \in PublisherAwaits \ {"postNote"}
    /\ publisher' = Resolved(publisher)
    /\ UNCHANGED <<export, store, gContract, initPc, page, isLoading,
                   isShowingError, errorMessage, messages, loadPc, runs, loaded,
                   posted, signer, text>>

\* gContract.postNote resolves: the call returns and the run goes on
PublisherReturns ==
    /\ publisher.pc = "postNote"
    /\ PublishOk(publisher.run)
    /\ posted' = posted \cup {publisher.id}
    /\ CallFor(publisher.run,
               [publisher EXCEPT !.pc = "returned", !.acked = publisher.acked + 1])

\* The request awaited rejects: the call throws into the run's catch block
PublisherThrows ==
    /\ publisher.pc \in PublisherAwaits
    /\ \E e \in IOErrors :
           /\ PublishFail(publisher.run, e)
           /\ publisher' = [publisher EXCEPT !.pc = "thrown", !.error = e]

-----------------------------------------------------------------------------
\* Specifications

InitPage ==
    /\ export \in Exports
    /\ store \in {[finishedIDs |-> <<>>, includeService |-> b] : b \in BOOLEAN}
    /\ gContract \in SetupOutcomes
    /\ initPc = "idle"
    /\ page = "migrate"
    /\ isLoading = TRUE
    /\ isShowingError = FALSE
    /\ errorMessage = ""
    /\ messages = <<>>
    /\ loadPc = "fetching"
    /\ runs = [r \in Runs |-> IdleRun]
    /\ loaded = NotLoaded
    /\ posted = {}
    /\ publisher = IdlePub

Init == InitPage /\ signer = SignerAfter(gContract) /\ text = NoText

\* The user reaches the page's controls: neither the loading overlay nor the
\* error dialog is in front of them.
Interactive == ~isLoading /\ ~isShowingError

UserStart == Interactive /\ Start /\ UNCHANGED publisher
UserToggle == Interactive /\ \E index \in 1..NumMsgs : Toggle(index)
PublishReturns == \E r \in Runs : PublishOk(r) /\ UNCHANGED <<posted, publisher>>
PublishThrows ==
    \E r \in Runs : \E e \in IOErrors : PublishFail(r, e) /\ UNCHANGED publisher

\* Spec: one session after another of the Migrate page, the user acting
\* only while the page is interactive, the signing context as the setup
\* left it.
Next ==
    \/ LoadOk
    \/ LoadFail
    \/ UserToggle
    \/ UserStart
    \/ PublishReturns
    \/ PublishThrows
    \/ CloseError
    \/ Reload

Spec == Init /\ [][Next]_vars

\* SpecLive: one session of the page as in Spec, every outstanding
\* signerPostNote call eventually returning or throwing.
NextLive ==
    \/ LoadOk
    \/ LoadFail
    \/ UserToggle
    \/ UserStart
    \/ PublishReturns
    \/ PublishThrows
    \/ CloseError

SpecLive ==
    Init /\ [][NextLive]_vars /\ WF_vars(PublishReturns \/ PublishThrows)

\* SpecResume: the resume cycle (load, one run with the selection as loaded,
\* failure or interruption, reload, ...), the chain's notes recorded.
FreshStart == (\A r \in Runs : runs[r].pc = "idle") /\ UserStart
PublishReturnsOnChain ==
    \E r \in Runs :
        PublishOk(r) /\ posted' = posted \cup {AwaitedId(r)} /\ UNCHANGED publisher

NextResume ==
    \/ LoadOk
    \/ LoadFail
    \/ FreshStart
    \/ PublishReturnsOnChain
    \/ PublishThrows
    \/ CloseError
    \/ Reload

SpecResume == Init /\ [][NextResume]_vars

\* SpecSigner: Spec with initWithPrivateKey running beside the page.
\* SpecPublish: runs with the selection as loaded, every await of
\* signerPostNote a step of its own; the setup has or has not resolved the
\* character, whatever it did with the key.
InitPublish ==
    /\ InitPage
    /\ signer \in [characterId : {NoCharacter} \cup ResolvedCharacters,
                    connected : {gContract = "set"}]
    /\ text = NoText

\* The Start click, up to the first await of the first signerPostNote call
StartPublishing == Interactive /\ Start /\ CallFor(LowestFree, publisher)

NextPublish ==
    \/ LoadOk
    \/ LoadFail
    \/ StartPublishing
    \/ PublisherStep
    \/ PublisherReturns
    \/ PublisherThrows
    \/ CloseError

SpecPublish == InitPublish /\ [][NextPublish]_vars

\* SpecReentrant: the loading overlay keeps no click from the Start button,
\* which has no guard of its own: the user starts a run whenever the modal
\* error dialog is closed, also while a run is suspended. The selection
\* stays as loaded.
StartAnyTime == ~isShowingError /\ Start /\ UNCHANGED publisher

NextReentrant ==
    \/ LoadOk
    \/ LoadFail
    \/ StartAnyTime
    \/ PublishReturns
    \/ PublishThrows
    \/ CloseError
    \/ Reload

SpecReentrant == Init /\ [][NextReentrant]_vars

\* SpecText: ParseMessageText called on any one message of TextMessages
InitText ==
    /\ InitPage
    /\ signer = SignerAfter(gContract)
    /\ text \in {ToParse(message) : message \in TextMessages}

NextText == FormatText

SpecText == InitText /\ [][NextText]_vars

\* SpecToggling: one session of the page in which the loading overlay keeps
\* no click from the list items, which have no guard of their own: the user
\* toggles whenever the modal error dialog is closed, also while a run is
\* suspended; Start as in Spec.
ToggleAnyTime == ~isShowingError /\ \E index \in 1..NumMsgs : Toggle(index)

NextToggling ==
    \/ LoadOk
    \/ LoadFail
    \/ ToggleAnyTime
    \/ UserStart
    \/ PublishReturns
    \/ PublishThrows
    \/ CloseError

SpecToggling == Init /\ [][NextToggling]_vars

NextSigner ==
    \/ Next
    \/ InitBegin
    \/ InitConnected
    \/ InitFailed
    \/ InitRejectedKey

SpecSigner == Init /\ [][NextSigner]_vars

-----------------------------------------------------------------------------
\* Properties

\* The ids of the candidates of list cap at the indices in S
IdsAt(cap, S) == {cap[i].message.id : i \in S}

\* The completed set of the Progress Record
Completed == Elems(store.finishedIDs)

\* The step in which run r ends in the catch block: its outstanding call
\* throws, or it is started and the first call throws at once.
RunFailsStep(r) ==
    /\ runs'[r].pc = "failed"
    /\ \/ runs[r].pc = "await"
       \/ /\ r = LowestFree
          /\ Len(messages') = Len(messages)
          /\ \A i \in 1..Len(messages) :
                 messages'[i].isToMigrate = messages[i].isToMigrate
          /\ UserStart

C1_State(r) ==
    runs[r].pc = "failed" =>
        LET run == runs[r]
            k == run.index
            cap == run.captured
        IN  /\ k \in 1..Len(cap) /\ cap[k].isToMigrate
            /\ \A p \in 1..Len(run.log) :
                   run.log[p].op = "signerPostNote" => run.log[p].arg <= k
            /\ messages[k].isMigrated = cap[k].isMigrated
            /\ Completed = IdsAt(cap, run.published)
            /\ \A i \in run.published : i < k
            /\ \A j \in k..Len(cap) : cap[j].message.id \notin Completed
            /\ errorMessage = run.error

C1_Step(r) ==
    RunFailsStep(r) =>
        /\ isShowingError'
        /\ errorMessage' = runs'[r].error
        /\ runs'[r].error \in IOErrors \cup {NotInitialized}

C3_OnlySelectedNotDone ==
    \A r \in Runs :
        \A p \in 1..Len(runs[r].log) :
            runs[r].log[p].op = "signerPostNote"
            => LET c == runs[r].captured[runs[r].log[p].arg]
               IN  c.isToMigrate /\ ~c.isMigrated

\* The run works on the selection the last load produced.
DefaultSelection(r) ==
    /\ runs[r].pc # "idle"
    /\ Len(runs[r].captured) = Len(loaded.messages)
    /\ \A i \in 1..Len(runs[r].captured) :
           runs[r].captured[i].isToMigrate = loaded.messages[i].isToMigrate

\* C4: a run on the selection as loaded invokes the publisher for no
\* message whose id was in the completed set that the load read, although
\* the run has emptied the stored completed set.
C4_DefaultRunSkipsLoadedCompleted ==
    \A r \in Runs :
        DefaultSelection(r) =>
            \A p \in 1..Len(runs[r].log) :
                runs[r].log[p].op = "signerPostNote"
                => runs[r].captured[runs[r].log[p].arg].message.id
                       \notin Elems(loaded.progress.finishedIDs)

C4_Witness ==
    \E r \in Runs :
        /\ DefaultSelection(r)
        /\ runs[r].published # {}
        /\ loaded.progress.finishedIDs # <<>>
        /\ Elems(loaded.progress.finishedIDs) \cap Completed = {}

\* The step in which run r's signerPostNote call returns successfully
PublishedStep(r) ==
    runs[r].pc = "await" /\ runs'[r].published # runs[r].published

\* C5: at every list load the completed set holds every message published
\* so far, and no message is published successfully a second time.
C5_ResumeKeepsPublished ==
    [][/\ LoadOk => posted \subseteq Completed
       /\ \A r \in Runs : PublishedStep(r) => AwaitedId(r) \notin posted]_vars

\* C6: while a run is under way and after it has ended, every candidate it
\* has published is Done in the list shown, and while a call is outstanding
\* the candidates after the current one are as they were at the run's start.
C6_PublishedShownDone ==
    \A r \in Runs :
        runs[r].pc \in {"await", "failed", "finished"} =>
            /\ \A i \in runs[r].published : messages[i].isMigrated
            /\ runs[r].pc = "await" =>
                   \A j \in (runs[r].index + 1)..Len(runs[r].captured) :
                       messages[j] = runs[r].captured[j]

\* C7: a list load builds one candidate per message of the export, in
\* order, from the Progress Record as stored at that moment: complete
\* exactly when the id is in the completed set, not in progress, selected
\* exactly when not completed and (includeService or not a service message).
C7_LoadBuildsCandidates ==
    [][LoadOk =>
        /\ Len(messages') = Len(export)
        /\ \A i \in 1..Len(export) :
               LET c == messages'[i]
                   done == export[i].id \in Completed
               IN  /\ c.message = export[i]
                   /\ c.isMigrated = done
                   /\ c.isPendingMigrate = FALSE
                   /\ c.isToMigrate =
                          (~done /\ (store.includeService
                                       \/ export[i].type # "service"))
                   /\ done => ~c.isToMigrate]_vars

C7_Witness ==
    /\ messages # <<>>
    /\ messages = loaded.messages
    /\ loaded.progress = store
    /\ store.includeService
    /\ \E i \in 1..Len(messages) :
           /\ messages[i].message.type = "service"
           /\ messages[i].isMigrated
           /\ ~messages[i].isToMigrate
    /\ \E i \in 1..Len(messages) :
           /\ ~messages[i].isMigrated
           /\ messages[i].isToMigrate

\* C8: no candidate of the list shown is complete and in progress at once.
C8_DoneNotInProgress ==
    \A i \in 1..Len(messages) :
        ~(messages[i].isMigrated /\ messages[i].isPendingMigrate)

\* C9: a candidate is in progress only while a run is suspended in the
\* publisher call for it.
C9_InProgressOnlyWhileOutstanding ==
    \A i \in 1..Len(messages) :
        messages[i].isPendingMigrate =>
            \E r \in Runs : runs[r].pc = "await" /\ runs[r].index = i

\* C10: a Start while gContract is null shows the Precondition error and
\* leaves the Progress Record and the candidate list as they were.
C10_PreconditionChangesNothing ==
    [][(gContract = "null" /\ UserStart) =>
        /\ isShowingError'
        /\ errorMessage' = NotInitialized
        /\ store' = store
        /\ messages' = messages]_vars

\* The positions of the requests named op in the trace of the call
OpsAt(op) == {p \in 1..Len(publisher.ops) : publisher.ops[p].op = op}

\* C11: a signerPostNote call submits the transaction at most once, as its
\* last request, after the note document and every attachment in it were
\* uploaded and every earlier request succeeded; a call that threw made no
\* request twice and none after the failed one, has no transaction unless
\* the transaction is what failed, and leaves its run ended with the
\* message's id not in the Progress Record.
C11_TransactionOnlyAfterUploads ==
    LET ops == publisher.ops
        n == Len(ops)
    IN  /\ Cardinality(OpsAt("postNote")) <= 1
        /\ \A q \in OpsAt("postNote") :
               /\ q = n
               /\ q > 1
               /\ publisher.acked >= q - 1
               /\ ops[q - 1].op = "uploadJson"
               /\ \A j \in 1..Len(ops[q - 1].arg) :
                      \E p \in OpsAt("uploadFile") :
                          /\ p < q
                          /\ ops[q - 1].arg[j].address = <<"ipfs", ops[p].arg>>
               /\ \A f \in OpsAt("fetch") :
                      \E p \in OpsAt("uploadFile") :
                          f < p /\ p < q /\ ops[p].arg = ops[f].arg
        /\ \A p, q \in 1..n : p # q => ops[p] # ops[q]
        /\ publisher.pc = "thrown" =>
               /\ n > 0 => publisher.acked = n - 1
               /\ runs[publisher.run].pc = "failed"
               /\ publisher.id \notin Completed

C11_Witness ==
    /\ publisher.pc = "thrown"
    /\ publisher.error \in IOErrors
    /\ OpsAt("postNote") = {}
    /\ Len(publisher.attachments) = MaxPhotos
    /\ publisher.ops[Len(publisher.ops)].op = "uploadFile"
    /\ Completed # {}

\* C12: a signerPostNote call entered while gContract is null or while no
\* character is resolved throws "Contract not initialized." and has made no
\* request.
C12_UninitializedCallThrowsFirst ==
    (/\ publisher.pc # "idle"
     /\ \/ publisher.ctx.gContract = "null"
        \/ publisher.ctx.characterId = NoCharacter)
        => /\ publisher.pc = "thrown"
           /\ publisher.error = NotInitialized
           /\ publisher.ops = <<>>

\* C13: at most one run is suspended in a signerPostNote call at any moment,
\* also when Start is pressed again before the first run has ended.
C13_OneCallOutstanding ==
    Cardinality({r \in Runs : runs[r].pc = "await"}) <= 1

\* C14: while no initWithPrivateKey call has completed successfully, also
\* while one is connecting and after one has failed, a call of
\* getSignerAddress, checkOperator, addOperator, removeOperator or
\* signerPostNote throws "Contract not initialized.".
C14_GuardedUntilConnected ==
    ~signer.connected =>
        \A fn \in {"getSignerAddress", "checkOperator", "addOperator",
                    "removeOperator", "signerPostNote"} :
            GuardOutcome(fn) = NotInitialized

\* C15: when the fetch or the parse of the export fails at load, the
\* candidate list stays empty, the error dialog is shown with the error's
\* message, the loading indicator is cleared and the Progress Record is as
\* it was.
C15_LoadFailureShown ==
    [][LoadFail =>
        /\ messages' = <<>>
        /\ isShowingError'
        /\ errorMessage' = LoadError
        /\ ~isLoading'
        /\ store' = store]_vars

C15_Witness ==
    /\ loadPc = "done"
    /\ loaded = NotLoaded
    /\ messages = <<>>
    /\ isShowingError
    /\ errorMessage = LoadError
    /\ ~isLoading
    /\ store.finishedIDs # <<>>

\* The index of the first entry of a photo list without an address, one past
\* the end when every entry has one
FirstBare(photos) ==
    CHOOSE i \in 1..(Len(photos) + 1) :
        /\ i <= Len(photos) => photos[i].photo = NoAddress
        /\ \A j \in 1..(i - 1) : photos[j].photo # NoAddress

\* The addresses a call on message is to attach, in order
AttachedSources(message) ==
    [i \in 1..(FirstBare(message.photos) - 1) |-> message.photos[i].photo]
        \o (IF message.file = NoAddress THEN <<>> ELSE <<message.file>>)

\* C16: the attachment list of a call is one record per photo entry before
\* the first entry without an address, in order, then one for the file if
\* there is one; no entry at or after the first one without an address is
\* ever fetched or uploaded; an absent or empty photo list gives no photo
\* record.
C16_AttachmentsUpToFirstBare ==
    LET message == publisher.message
        sources == AttachedSources(message)
        att == publisher.attachments
    IN  /\ publisher.pc \in {"uploadJson", "postNote", "returned"} =>
               /\ Len(att) = Len(sources)
               /\ \A i \in 1..Len(att) : att[i].address = <<"ipfs", sources[i]>>
        /\ \A p \in OpsAt("fetch") \cup OpsAt("blob") \cup OpsAt("uploadFile") :
               \A i \in 1..Len(message.photos) :
                   publisher.ops[p].arg = message.photos[i].photo
                       => i < FirstBare(message.photos)

C16_Witness ==
    /\ publisher.pc = "postNote"
    /\ Len(publisher.message.photos) = MaxPhotos
    /\ publisher.message.photos[MaxPhotos - 1].photo = NoAddress
    /\ publisher.message.photos[MaxPhotos].photo # NoAddress
    /\ publisher.message.file # NoAddress
    /\ Len(publisher.attachments) = MaxPhotos - 1

\* The markers around the text of a span, by span type
Markers ==
    [t \in SpanTypes |->
        CASE t = "bold" -> <<"**", "**">>
          [] t = "italic" -> <<"*", "*">>
          [] t = "strikethrough" -> <<"~~", "~~">>
          [] t \in {"link", "text_link"} -> <<"[", ")">>
          [] OTHER -> <<"", "">>]

\* What one span contributes to the text
Rendered(span) ==
    Markers[span.type][1] \o span.text
        \o (CASE span.type = "link" -> "](" \o span.text
              [] span.type = "text_link" -> "](" \o span.href
              [] OTHER -> "")
        \o Markers[span.type][2]

RECURSIVE Joined(_)
Joined(strings) ==
    IF strings = <<>> THEN "" ELSE Head(strings) \o Joined(Tail(strings))

\* C17: the text of a service message is its action text, "" when it has
\* none, whatever its spans; the text of any other message is its spans'
\* contributions joined in order: bold in **, italic in *, strikethrough in
\* ~~, a link as [text](text), a text-link as [text](href), every other type
\* as the raw text; no span gives "".
C17_TextRendering ==
    LET message == text.message
        spans == message.text_entities
    IN  text.called =>
            /\ message.type = "service" => text.result = message.action
            /\ message.type # "service" =>
                   text.result =
                       Joined([i \in 1..Len(spans) |-> Rendered(spans[i])])
            /\ (message.type # "service" /\ spans = <<>>) => text.result = ""

C17_Witness ==
    /\ text.called
    /\ text.message.type = "message"
    /\ Len(text.message.text_entities) = MaxSpans
    /\ text.message.text_entities[1].type = "italic"
    /\ text.message.text_entities[MaxSpans].type = "text_link"
    /\ text.message.text_entities[MaxSpans].text = "y"
    /\ text.message.text_entities[1].text = "x"
    /\ MaxSpans = 2 => text.result = "*x*[y](t.me/c)"

\* The step in which the Start handler is entered as run r
StartStep(r) ==
    /\ runs[r].pc # "await"
    /\ runs'[r] # runs[r]
    /\ runs'[r].pc # "idle"

\* C18: the Start handler first writes the Progress Record with finishedIDs
\* empty, before any candidate is looked at and whatever is selected, and
\* no step, the reset and the appends included, changes includeService.
C18_ResetFirstSettingsKept ==
    [][/\ store'.includeService = store.includeService
       /\ \A r \in Runs : StartStep(r) =>
              /\ runs'[r].log[1] =
                     Call("setProgress",
                          [finishedIDs |-> <<>>,
                           includeService |-> store.includeService])
              /\ \A p \in 2..Len(runs'[r].log) :
                     runs'[r].log[p].op # "setProgress"
              /\ store'.finishedIDs = <<>>]_vars

C18_Witness ==
    \E r \in Runs :
        /\ runs[r].pc = "finished"
        /\ runs[r].published = {}
        /\ loaded.progress.finishedIDs # <<>>
        /\ loaded.progress.includeService
        /\ store = [finishedIDs |-> <<>>, includeService |-> TRUE]

\* The candidates run r is to publish: those selected in the list it captured
Selected(r) ==
    {i \in 1..Len(runs[r].captured) : runs[r].captured[i].isToMigrate}

\* The step in which run r ends: its handler returns
EndStep(r) ==
    /\ runs'[r] # runs[r]
    /\ runs'[r].pc \in {"finished", "failed"}

C20_ToggleFlipsOneFlag ==
    [][UserToggle =>
        /\ store' = store
        /\ Len(messages') = Len(messages)
        /\ \E i \in 1..Len(messages) :
               /\ messages'[i].isToMigrate = ~messages[i].isToMigrate
               /\ messages'[i].isPendingMigrate = messages[i].isPendingMigrate
               /\ messages'[i].isMigrated = messages[i].isMigrated
               /\ messages'[i].message = messages[i].message
               /\ \A j \in 1..Len(messages) \ {i} :
                      messages'[j] = messages[j]]_vars

C20_Witness ==
    /\ \A r \in Runs : runs[r].pc = "idle"
    /\ loadPc = "done"
    /\ \E i \in 1..Len(messages) :
           /\ messages[i].message.id \in Completed
           /\ messages[i].isMigrated
           /\ messages[i].isToMigrate
           /\ ~loaded.messages[i].isToMigrate
           /\ \A j \in 1..Len(messages) \ {i} :
                  messages[j] = loaded.messages[j]

\* C21: at most one candidate of the list shown is in progress, also when a
\* run that ended in the catch block is followed by another run.
C21_AtMostOneInProgress ==
    Cardinality({i \in 1..Len(messages) : messages[i].isPendingMigrate}) <= 1

\* The step in which the signerPostNote call of run r returns
ReturnStep(r) ==
    /\ runs[r].pc = "await"
    /\ Len(runs'[r].log) > Len(runs[r].log)
    /\ runs'[r].log[Len(runs[r].log) + 1] = Call("returned", runs[r].index)

RunStep(r) ==
    /\ runs[r].pc = "await"
    /\ runs'[r] # runs[r]
    /\ runs'[r].pc # "idle"

\* C23: what a run publishes is within the candidates selected in the list
\* at its Start, and all of them when it navigates, whatever is toggled
\* while it is suspended; and the step that ends a run leaves every
\* selection flag as the list had it, toggles made during the suspension
\* included.
C23_SelectionFixedTogglesKept ==
    [][\A r \in Runs :
          RunStep(r) =>
              /\ runs'[r].captured = runs[r].captured
              /\ runs'[r].published \subseteq Selected(r)
              /\ runs'[r].pc = "finished" => runs'[r].published = Selected(r)
              /\ EndStep(r) =>
                     \A i \in 1..Len(messages) :
                         messages'[i].isToMigrate = messages[i].isToMigrate]_vars

====
